---------------------------- MODULE Spec2Model ----------------------------
(***************************************************************************)
(* A model of manova_ai_assistant/app.py: the knowledge loader             *)
(* (Me._load_documents), the tool-calling loop (Me.chat with               *)
(* Me.handle_tool_call), the two notification tools, and the two UI        *)
(* handlers (respond, submit_contact).                                     *)
(*                                                                         *)
(* Representation.  A Python str is a sequence of one-character strings,   *)
(* so that strip(), lower(), "in" and "+" are computed and not assumed.    *)
(* JSON text is a sequence of tokens (punctuation or a quoted string), so  *)
(* that json.loads can fail and json.dumps produces text.  The remote      *)
(* model, the push service and the file system are the environment: each   *)
(* of their answers is an input of the action that consumes it.            *)
(***************************************************************************)
EXTENDS Naturals, Sequences, FiniteSets

(***************************************************************************)
(* Bounds of the exploration.                                              *)
(***************************************************************************)
\* Tool rounds explored in one turn (the code itself has no limit).
MaxRounds == 2
\* Completed turns kept in one session's chat history.
MaxTurns == 3
\* Pages of one PDF document.
MaxPages == 2

(***************************************************************************)
(* Python str operations.                                                  *)
(***************************************************************************)
UpperLetters ==
    <<"A","B","C","D","E","F","G","H","I","J","K","L","M","N","O","P","Q","R","S","T","U","V","W","X","Y","Z">>

LowerLetters ==
    <<"a","b","c","d","e","f","g","h","i","j","k","l","m","n","o","p","q","r","s","t","u","v","w","x","y","z">>

\* The characters str.strip() removes.
Whitespace == {" ", "\t", "\n", "\r"}

LowerChar(c) ==
    IF \E i \in 1..Len(UpperLetters) : UpperLetters[i] = c
    THEN LowerLetters[CHOOSE i \in 1..Len(UpperLetters) : UpperLetters[i] = c]
    ELSE c

\* s.lower()
Lower(s) == [i \in 1..Len(s) |-> LowerChar(s[i])]

\* sub in s
Contains(s, sub) ==
    \E i \in 0..Len(s) :
        /\ i + Len(sub) <= Len(s)
        /\ \A j \in 1..Len(sub) : s[i + j] = sub[j]

\* Faulty variant of Strip: nothing is removed, as if respond tested
\* "not message".
Strip_Nothing(s) == s

\* s.strip()
Strip(s) ==
    LET keep == {i \in 1..Len(s) : s[i] \notin Whitespace}
    IN  IF keep = {} THEN <<>>
        ELSE LET lo == CHOOSE i \in keep : \A j \in keep : i <= j
                 hi == CHOOSE i \in keep : \A j \in keep : j <= i
             IN  SubSeq(s, lo, hi)

\* Python truthiness of a str
Truthy(s) == s # <<>>

\* a or b, on str
OrElse(a, b) == IF Truthy(a) THEN a ELSE b

(***************************************************************************)
(* JSON text, token by token.                                              *)
(***************************************************************************)
LBrace == <<"punct", <<"{">> >>
RBrace == <<"punct", <<"}">> >>
Colon  == <<"punct", <<":">> >>
Comma  == <<"punct", <<",">> >>
JStr(s) == <<"str", s>>

IsJStr(t) == t[1] = "str"

\* The members of an object, from the token after "{" on: key : value
\* (, key : value)* }.  A later duplicate key replaces an earlier one.
RECURSIVE ParseMembers(_, _, _)
ParseMembers(toks, i, acc) ==
    IF i + 3 > Len(toks) THEN [ok |-> FALSE, value |-> acc]
    ELSE IF ~(IsJStr(toks[i]) /\ toks[i + 1] = Colon /\ IsJStr(toks[i + 2]))
    THEN [ok |-> FALSE, value |-> acc]
    ELSE LET k == toks[i][2]
             v == toks[i + 2][2]
             next == [x \in (DOMAIN acc) \cup {k} |-> IF x = k THEN v ELSE acc[x]]
         IN  IF toks[i + 3] = RBrace
             THEN [ok |-> i + 3 = Len(toks), value |-> next]
             ELSE IF toks[i + 3] = Comma
             THEN ParseMembers(toks, i + 4, next)
             ELSE [ok |-> FALSE, value |-> next]

\* json.loads(text) for a flat object of strings: ok = FALSE is
\* json.JSONDecodeError, otherwise value is the dict.
JsonLoads(toks) ==
    IF Len(toks) < 2 \/ toks[1] # LBrace THEN [ok |-> FALSE, value |-> <<>>]
    ELSE IF toks = <<LBrace, RBrace>> THEN [ok |-> TRUE, value |-> <<>>]
    ELSE ParseMembers(toks, 2, <<>>)

\* json.dumps(result): result is a dict given as its (key, value) pairs in
\* insertion order.
RECURSIVE DumpMembers(_, _)
DumpMembers(pairs, i) ==
    IF i > Len(pairs) THEN <<>>
    ELSE (IF i > 1 THEN <<Comma>> ELSE <<>>)
         \o <<JStr(pairs[i][1]), Colon, JStr(pairs[i][2])>>
         \o DumpMembers(pairs, i + 1)

JsonDumps(result) == <<LBrace>> \o DumpMembers(result, 1) \o <<RBrace>>

(***************************************************************************)
(* The notification tools.  A tool's effect is one call of push(text); its *)
(* value is the acknowledgement {"recorded": "ok"}.                        *)
(***************************************************************************)
LitRecording == <<"R","e","c","o","r","d","i","n","g"," ">>

LitWithEmail == <<" ","w","i","t","h"," ","e","m","a","i","l"," ">>

LitAndNotes == <<" ","a","n","d"," ","n","o","t","e","s"," ">>

LitRecordingUnknown ==
    <<"R","e","c","o","r","d","i","n","g"," ","u","n","k","n","o","w","n"," ","q","u","e","s","t","i","o","n",":"," ">>

NameNotProvided == <<"N","a","m","e"," ","n","o","t"," ","p","r","o","v","i","d","e","d">>

NotesNotProvided == <<"n","o","t"," ","p","r","o","v","i","d","e","d">>

NotesContactForm ==
    <<"S","u","b","m","i","t","t","e","d"," ","v","i","a"," ","c","o","n","t","a","c","t"," ","f","o","r","m">>

NotesFromChat == <<"F","r","o","m"," ","c","h","a","t",":"," ">>

RecordedOk == << <<<<"r","e","c","o","r","d","e","d">>, <<"o","k">>>> >>

\* Faulty variant of UserDetailsText: the name stands where the email
\* belongs.
UserDetailsText_NameForEmail(email, name, notes) ==
    LitRecording \o name \o LitWithEmail \o name \o LitAndNotes \o notes

\* The text record_user_details pushes.
UserDetailsText(email, name, notes) ==
    LitRecording \o name \o LitWithEmail \o email \o LitAndNotes \o notes

\* The text record_unknown_question pushes.
UnknownQuestionText(question) == LitRecordingUnknown \o question

\* A push call: what it is for and the text it sends.
ContactPush(email, name, notes) ==
    [tool |-> "record_user_details", text |-> UserDetailsText(email, name, notes)]

UnknownPush(question) ==
    [tool |-> "record_unknown_question", text |-> UnknownQuestionText(question)]

KeyQuestion == <<"q","u","e","s","t","i","o","n">>

KeyEmail == <<"e","m","a","i","l">>

KeyName == <<"n","a","m","e">>

KeyNotes == <<"n","o","t","e","s">>

\* globals().get(tool_name), for the names the modelled responses use: the
\* two tool functions are module globals, any other such name is None.
GlobalsGet(tool_name) ==
    IF tool_name \in {"record_user_details", "record_unknown_question"}
    THEN tool_name ELSE "None"

\* Whether tool(**arguments) binds: every required parameter given and no
\* keyword the function does not take (otherwise TypeError).
Binds(tool, arguments) ==
    IF tool = "record_unknown_question"
    THEN DOMAIN arguments = {KeyQuestion}
    ELSE /\ KeyEmail \in DOMAIN arguments
         /\ DOMAIN arguments \subseteq {KeyEmail, KeyName, KeyNotes}

\* The push call tool(**arguments) makes, defaults filled in.
ToolPush(tool, arguments) ==
    IF tool = "record_unknown_question"
    THEN UnknownPush(arguments[KeyQuestion])
    ELSE ContactPush(arguments[KeyEmail],
                     IF KeyName \in DOMAIN arguments THEN arguments[KeyName] ELSE NameNotProvided,
                     IF KeyNotes \in DOMAIN arguments THEN arguments[KeyNotes] ELSE NotesNotProvided)

\* The ToolResult appended for one tool call.
ToolResult(tool_call, result) ==
    [role |-> "tool", content |-> JsonDumps(result), tool_call_id |-> tool_call.id]

\* Me.handle_tool_call from tool call i on.  pushes are the push calls made
\* so far in the running handler; pushFail is the index of the push call
\* whose transport raises in this step (0: none does).  raised = TRUE is
\* the exception leaving handle_tool_call, with the push calls already made.
RECURSIVE HandleFrom(_, _, _, _, _, _)
HandleFrom(tool_calls, i, results, pushes, made, pushFail) ==
    IF i > Len(tool_calls)
    THEN [raised |-> FALSE, error |-> "", results |-> results, pushes |-> pushes]
    ELSE LET tool_call == tool_calls[i]
             parsed == JsonLoads(tool_call.arguments)
             tool == GlobalsGet(tool_call.name)
         IN  IF ~parsed.ok
             THEN [raised |-> TRUE, error |-> "JSONDecodeError", results |-> results, pushes |-> pushes]
             ELSE IF tool = "None"
             THEN HandleFrom(tool_calls, i + 1,
                             Append(results, ToolResult(tool_call, <<>>)), pushes, made, pushFail)
             ELSE IF ~Binds(tool, parsed.value)
             THEN [raised |-> TRUE, error |-> "TypeError", results |-> results, pushes |-> pushes]
             ELSE IF made + 1 = pushFail
             THEN [raised |-> TRUE, error |-> "RequestException", results |-> results,
                   pushes |-> Append(pushes, ToolPush(tool, parsed.value))]
             ELSE HandleFrom(tool_calls, i + 1,
                             Append(results, ToolResult(tool_call, RecordedOk)),
                             Append(pushes, ToolPush(tool, parsed.value)), made + 1, pushFail)

handle_tool_call(tool_calls, pushes, pushFail) ==
    HandleFrom(tool_calls, 1, <<>>, pushes, 0, pushFail)

(***************************************************************************)
(* The knowledge loader.  A file-system snapshot gives, for every          *)
(* configured path, whether it exists and what reading it yields: a PDF    *)
(* either fails to open or has pages, each of which yields text (possibly  *)
(* none) or raises on extraction; a text file is read whole or raises.     *)
(***************************************************************************)
Newline == <<"\n">>

\* Faulty variant of LoadPages: a page without text is appended like any
\* other, as the text-file loop does with an empty file.
RECURSIVE LoadPages_KeepsEmpty(_, _, _)
LoadPages_KeepsEmpty(kb, pages, i) ==
    IF i > Len(pages) THEN kb
    ELSE IF pages[i].raises THEN kb
    ELSE LoadPages_KeepsEmpty(kb \o Newline \o pages[i].text, pages, i + 1)

\* The pages loop of one PDF, from page i on.  An exception on a page ends
\* the document (the except clause of the enclosing try), with the text of
\* the earlier pages already appended.
RECURSIVE LoadPages(_, _, _)
LoadPages(kb, pages, i) ==
    IF i > Len(pages) THEN kb
    ELSE IF pages[i].raises THEN kb
    ELSE IF Truthy(pages[i].text)
    THEN LoadPages(kb \o Newline \o pages[i].text, pages, i + 1)
    ELSE LoadPages(kb, pages, i + 1)

\* One iteration of the PDF loop.
LoadPdf(kb, doc) ==
    IF doc.exists
    THEN IF doc.opens THEN LoadPages(kb, doc.pages, 1) ELSE kb
    ELSE kb

\* One iteration of the text-file loop.
LoadText(kb, doc) ==
    IF doc.exists
    THEN IF doc.reads THEN kb \o Newline \o doc.content ELSE kb
    ELSE kb

RECURSIVE LoadPdfs(_, _, _)
LoadPdfs(kb, docs, i) ==
    IF i > Len(docs) THEN kb ELSE LoadPdfs(LoadPdf(kb, docs[i]), docs, i + 1)

RECURSIVE LoadTexts(_, _, _)
LoadTexts(kb, docs, i) ==
    IF i > Len(docs) THEN kb ELSE LoadTexts(LoadText(kb, docs[i]), docs, i + 1)

\* Me._load_documents: the knowledge-base text and the image paths found.
load_documents(snapshot) ==
    [knowledge_base_text |-> LoadTexts(LoadPdfs(<<>>, snapshot.pdf, 1), snapshot.text, 1),
     image_paths |-> LET found == SelectSeq(snapshot.images, LAMBDA img : img.exists)
                     IN  [i \in 1..Len(found) |-> found[i].path]]

\* The file-system snapshots explored.
PageOutcomes ==
    {[raises |-> TRUE, text |-> <<>>],
     [raises |-> FALSE, text |-> <<>>],
     [raises |-> FALSE, text |-> <<"c","v">>],
     [raises |-> FALSE, text |-> <<"p">>]}

PageLists == UNION {[1..n -> PageOutcomes] : n \in 0..MaxPages}

PdfFiles ==
    {[exists |-> FALSE, opens |-> FALSE, pages |-> <<>>],
     [exists |-> TRUE, opens |-> FALSE, pages |-> <<>>]}
    \cup {[exists |-> TRUE, opens |-> TRUE, pages |-> ps] : ps \in PageLists}

TextFiles ==
    {[exists |-> FALSE, reads |-> FALSE, content |-> <<>>],
     [exists |-> TRUE, reads |-> FALSE, content |-> <<>>],
     [exists |-> TRUE, reads |-> TRUE, content |-> <<>>],
     [exists |-> TRUE, reads |-> TRUE, content |-> <<"s","u","m">>]}

ImageFiles ==
    {[path |-> "knowledge_base/certifications/WhatsApp Image 2024-04-18 at 2.59.18 PM (4).jpeg",
      exists |-> b] : b \in BOOLEAN}

\* doc_paths: two PDFs ("me/cv.pdf", "knowledge_base/ManovaLebaku Moses.pdf"),
\* one text file ("me/summary.txt"), one image.
FileSystems ==
    {[pdf |-> <<a, b>>, text |-> <<t>>, images |-> <<g>>] :
        a \in PdfFiles, b \in PdfFiles, t \in TextFiles, g \in ImageFiles}

\* The snapshot the chat sessions are explored under: the first PDF loads,
\* the second cannot be opened, the text file loads.
SessionFileSystems ==
    {[pdf |-> <<[exists |-> TRUE, opens |-> TRUE, pages |-> <<[raises |-> FALSE, text |-> <<"c","v">>]>>],
                [exists |-> TRUE, opens |-> FALSE, pages |-> <<>>]>>,
      text |-> <<[exists |-> TRUE, reads |-> TRUE, content |-> <<"s","u","m">>]>>,
      images |-> <<[path |-> "knowledge_base/certifications/WhatsApp Image 2024-04-18 at 2.59.18 PM (4).jpeg",
                    exists |-> TRUE]>>]}

(***************************************************************************)
(* The conversation engine.                                                *)
(***************************************************************************)
\* self.name
Name == <<"M","a","n","o","v","a">>

\* Me.system_prompt.  Each fixed stretch of the template is kept as one
\* element; the name and the knowledge-base text are embedded verbatim.
system_prompt(name, kb) ==
    <<"You are acting as ">> \o name
    \o <<", a professional AI assistant representing ">> \o name
    \o <<" on their personal website.\nYour responsibilities include:\n- Answering questions ONLY based on the knowledge base below. Do NOT answer if the information is not contained in the knowledge base.\n- If you do NOT know the answer from the knowledge base, respond: \"I don't know\" and record the question.\n- Engage professionally and politely.\n- Use tools to record unknown questions and user details.\n- NEVER make up information or guess beyond the knowledge base.\n\nKnowledge Base Content:\n">>
    \o kb
    \o <<"\n\nGuidelines:\n- Be professional, friendly, and helpful.\n- Stay strictly on topic about ">>
    \o name \o <<"'s professional background.">>

\* respond's conversion of the Chatbot pairs into role/content messages: a
\* turn with an empty bot message contributes its user message only.
RECURSIVE GroqHistory(_, _)
GroqHistory(history, i) ==
    IF i > Len(history) THEN <<>>
    ELSE <<[role |-> "user", content |-> history[i][1]]>>
         \o (IF Truthy(history[i][2])
             THEN <<[role |-> "assistant", content |-> history[i][2]]>>
             ELSE <<>>)
         \o GroqHistory(history, i + 1)

\* chat's cleaning of one history item: the keys Groq rejects are dropped.
CleanItem(item) == [k \in (DOMAIN item) \ {"metadata", "options"} |-> item[k]]

\* Faulty variant of BuildMessages: the new user message is put before the
\* prior turns.
BuildMessages_UserFirst(prompt, history, msg) ==
    <<[role |-> "system", content |-> prompt]>>
    \o <<[role |-> "user", content |-> msg]>>
    \o [i \in 1..Len(history) |-> CleanItem(history[i])]

\* The initial value of chat's messages list.
BuildMessages(prompt, history, msg) ==
    <<[role |-> "system", content |-> prompt]>>
    \o [i \in 1..Len(history) |-> CleanItem(history[i])]
    \o <<[role |-> "user", content |-> msg]>>

\* Faulty variant of AppendRound: the results are put before the tool-call
\* message they answer.
AppendRound_ResultsFirst(msgs, message_obj, results) == (msgs \o results) \o <<message_obj>>

\* messages.append(message_obj); messages.extend(results)
AppendRound(msgs, message_obj, results) == (msgs \o <<message_obj>>) \o results

\* The fixed phrases of the post-hoc scan.
UnknownPhrases ==
    {<<"i"," ","d","o","n","'","t"," ","k","n","o","w">>,
     <<"c","a","n","n","o","t"," ","a","n","s","w","e","r">>,
     <<"n","o","t"," ","i","n"," ","m","y"," ","k","n","o","w","l","e","d","g","e"," ","b","a","s","e">>,
     <<"n","o"," ","i","n","f","o","r","m","a","t","i","o","n">>}

\* any(phrase in answer.lower() for phrase in [...])
IsUnknownAnswer(answer) == \E phrase \in UnknownPhrases : Contains(Lower(answer), phrase)

\* Variant of recorded_unknown: the flag is set once a tool round has
\* pushed an unknown question.
recorded_unknown_AfterToolCall(pushes) ==
    \E i \in 1..Len(pushes) : pushes[i].tool = "record_unknown_question"

\* The local recorded_unknown when the scan reads it: set to False before
\* the loop and assigned nowhere in it, whatever the tool calls pushed.
recorded_unknown(pushes) == FALSE

(***************************************************************************)
(* The environment's inputs: what the user types and what the remote model *)
(* answers.                                                                *)
(***************************************************************************)
\* Messages typed in the textbox: empty, whitespace only, and a real one
\* (with blanks around it, which respond tests for but does not remove).
Messages == {<<>>, <<" ", "\t">>, <<" ","h","i"," ">>}

Names == {<<>>, <<"A","l">>}

Emails == {<<>>, <<"a","@","b">>}

\* What submit_contact returns into the email box.
ThankYou ==
    <<"T","h","a","n","k"," ","y","o","u","!"," ","C","o","n","t","a","c","t"," ","i","n","f","o"," ","r","e","c","o","r","d","e","d",".">>

\* The first element stands for the one character U+2757.
PleaseEnterEmail ==
    <<"U+2757"," ","P","l","e","a","s","e"," ","e","n","t","e","r"," ","y","o","u","r"," ","e","m","a","i","l",".">>

Question == <<"q","?">>

ArgsQuestion == <<LBrace, JStr(KeyQuestion), Colon, JStr(Question), RBrace>>

ArgsEmail == <<LBrace, JStr(KeyEmail), Colon, JStr(<<"x","@","y">>), RBrace>>

\* Cut short: not valid JSON.
ArgsMalformed == <<LBrace, JStr(KeyQuestion), Colon>>

\* Valid JSON, but not the tool's parameters.
ArgsWrongKey == <<LBrace, JStr(<<"t","e","x","t">>), Colon, JStr(Question), RBrace>>

ToolCall(id, name, arguments) == [id |-> id, name |-> name, arguments |-> arguments]

\* The tool-call lists the model requests.
ToolCallLists ==
    {<<ToolCall("call_1", "record_unknown_question", ArgsQuestion)>>,
     <<ToolCall("call_1", "record_user_details", ArgsEmail),
       ToolCall("call_2", "record_unknown_question", ArgsQuestion)>>,
     <<ToolCall("call_1", "lookup_weather", <<LBrace, RBrace>>)>>,
     <<ToolCall("call_1", "record_unknown_question", ArgsMalformed),
       ToolCall("call_2", "record_unknown_question", ArgsQuestion)>>,
     <<ToolCall("call_1", "record_unknown_question", ArgsQuestion),
       ToolCall("call_2", "record_unknown_question", ArgsWrongKey)>>}

\* response.choices[0] of a model call.
Choice(finish_reason, content_none, content, tool_calls) ==
    [finish_reason |-> finish_reason, content_none |-> content_none,
     content |-> content, tool_calls |-> tool_calls]

NoResponse == Choice("", TRUE, <<>>, <<>>)

ToolResponses == {Choice("tool_calls", TRUE, <<>>, tcs) : tcs \in ToolCallLists}

FinalResponses ==
    {Choice("stop", FALSE, <<"I"," ","D","o","n","'","t"," ","K","n","o","w",".">>, <<>>),
     Choice("stop", FALSE, <<"M","a","n","o","v","a",".">>, <<>>),
     Choice("length", FALSE, <<>>, <<>>),
     Choice("stop", TRUE, <<>>, <<>>)}

\* The push call of the running step whose transport raises (0: none).
PushFailures == 0..2

(***************************************************************************)
(* The state.                                                              *)
(***************************************************************************)
VARIABLES
    fs,                   \* the file-system snapshot the documents are read from
    knowledge_base_text,  \* Me.knowledge_base_text
    image_paths,          \* Me.image_paths
    pc,                   \* "unbuilt", "idle" (no handler running), "chat" (Me.chat before a model call)
    chat_history,         \* the Chatbot value: (user message, bot message) pairs
    name_input,           \* the contact form's name box
    email_input,          \* the contact form's email box
    event,                \* the last UI event handled
    message,              \* respond's message (the locals of respond are reset by the next event)
    messages,             \* chat's messages list, while chat runs
    response,             \* chat's response: the last model answer of the turn
    modelCalls,           \* model calls made by the last respond
    pushed,               \* the push calls made by the last event's handler, in order
    outcome,              \* of the last handler: "none", "running", "returned", "raised"
    error                 \* the exception, when outcome is "raised"

vars ==
    <<fs, knowledge_base_text, image_paths, pc, chat_history, name_input, email_input,
      event, message, messages, response, modelCalls, pushed, outcome, error>>

kbVars == <<fs, knowledge_base_text, image_paths>>

\* The process at "__main__", before me = Me(): nothing is loaded and no
\* session has begun.  Construct is the first step of every behaviour.
InitFrom(snapshots) ==
    /\ fs \in snapshots
    /\ knowledge_base_text = <<>>
    /\ image_paths = <<>>
    /\ pc = "unbuilt"
    /\ chat_history = <<>>
    /\ name_input = <<>>
    /\ email_input = <<>>
    /\ event = "none"
    /\ message = <<>>
    /\ messages = <<>>
    /\ response = NoResponse
    /\ modelCalls = 0
    /\ pushed = <<>>
    /\ outcome = "none"
    /\ error = ""

Init == InitFrom(SessionFileSystems)

InitLoad == InitFrom(FileSystems)

\* me = Me(): __init__ runs _load_documents.
Construct ==
    /\ pc = "unbuilt"
    /\ pc' = "idle"
    /\ knowledge_base_text' = load_documents(fs).knowledge_base_text
    /\ image_paths' = load_documents(fs).image_paths
    /\ UNCHANGED <<fs, chat_history, name_input, email_input, event, message, messages,
                   response, modelCalls, pushed, outcome, error>>

\* The user edits the contact form.
EditContact(name, email) ==
    /\ pc = "idle"
    /\ name_input' = name
    /\ email_input' = email
    /\ event' = "edit"
    /\ pushed' = <<>>
    /\ outcome' = "none"
    /\ error' = ""
    /\ message' = <<>>
    /\ response' = NoResponse
    /\ modelCalls' = 0
    /\ UNCHANGED <<kbVars, pc, chat_history, messages>>

\* submit_contact(name, email); its value goes into the email box.  When
\* push raises, the handler returns nothing and the box keeps its value.
SubmitContact(pushFail) ==
    /\ pc = "idle"
    /\ event' = "submit_contact"
    /\ IF Truthy(email_input)
       THEN /\ pushed' = <<ContactPush(email_input, OrElse(name_input, NameNotProvided), NotesContactForm)>>
            /\ outcome' = IF pushFail = 1 THEN "raised" ELSE "returned"
            /\ error' = IF pushFail = 1 THEN "RequestException" ELSE ""
            /\ email_input' = IF pushFail = 1 THEN email_input ELSE ThankYou
       ELSE /\ pushed' = <<>>
            /\ outcome' = "returned"
            /\ error' = ""
            /\ email_input' = PleaseEnterEmail
    /\ message' = <<>>
    /\ response' = NoResponse
    /\ modelCalls' = 0
    /\ UNCHANGED <<kbVars, pc, chat_history, name_input, messages>>

\* respond(message, chat_history, name, email) up to the call of me.chat,
\* and me.chat up to its first model call.  A blank message returns the
\* history as it is.  (Sessions are explored up to MaxTurns completed turns.)
Respond(msg) ==
    /\ pc = "idle"
    /\ Len(chat_history) < MaxTurns
    /\ event' = "respond"
    /\ message' = msg
    /\ response' = NoResponse
    /\ modelCalls' = 0
    /\ pushed' = <<>>
    /\ error' = ""
    /\ IF ~Truthy(Strip(msg))
       THEN /\ pc' = "idle"
            /\ outcome' = "returned"
            /\ messages' = <<>>
       ELSE /\ pc' = "chat"
            /\ outcome' = "running"
            /\ messages' = BuildMessages(system_prompt(Name, knowledge_base_text),
                                         GroqHistory(chat_history, 1), msg)
    /\ UNCHANGED <<kbVars, chat_history, name_input, email_input>>

\* Faulty variant of ModelRaises: the failed turn is kept in the history
\* with an empty answer.
ModelRaises_KeepsFailedTurn ==
    /\ pc = "chat"
    /\ pc' = "idle"
    /\ modelCalls' = modelCalls + 1
    /\ outcome' = "raised"
    /\ error' = "APIConnectionError"
    /\ messages' = <<>>
    /\ chat_history' = Append(chat_history, <<message, <<>>>>)
    /\ UNCHANGED <<kbVars, name_input, email_input, event, message, response, pushed>>

\* The model call fails in transport: the exception leaves chat and respond.
ModelRaises ==
    /\ pc = "chat"
    /\ pc' = "idle"
    /\ modelCalls' = modelCalls + 1
    /\ outcome' = "raised"
    /\ error' = "APIConnectionError"
    /\ messages' = <<>>
    /\ UNCHANGED <<kbVars, chat_history, name_input, email_input, event, message, response, pushed>>

\* The model call returns finish_reason "tool_calls": one round of the loop.
\* (The code has no limit on the rounds; MaxRounds of them are explored.)
ModelRequestsTools(resp, pushFail) ==
    /\ pc = "chat"
    /\ modelCalls < MaxRounds
    /\ modelCalls' = modelCalls + 1
    /\ response' = resp
    /\ LET handled == handle_tool_call(resp.tool_calls, pushed, pushFail)
           message_obj == [role |-> "assistant", tool_calls |-> resp.tool_calls]
       IN  /\ pushed' = handled.pushes
           /\ IF handled.raised
              THEN /\ pc' = "idle"
                   /\ outcome' = "raised"
                   /\ error' = handled.error
                   /\ messages' = <<>>
              ELSE /\ pc' = "chat"
                   /\ outcome' = "running"
                   /\ error' = ""
                   /\ messages' = AppendRound(messages, message_obj, handled.results)
    /\ UNCHANGED <<kbVars, chat_history, name_input, email_input, event, message>>

\* The model call returns any other finish_reason: the loop ends, the scan
\* runs, chat returns the answer and respond finishes.  The Chatbot value
\* changes only by the value respond returns.
ModelAnswers(resp, pushFail) ==
    /\ pc = "chat"
    /\ pc' = "idle"
    /\ modelCalls' = modelCalls + 1
    /\ response' = resp
    /\ messages' = <<>>
    /\ LET answer == resp.content
           scan == IsUnknownAnswer(answer) /\ ~recorded_unknown(pushed)
           afterScan == IF scan THEN Append(pushed, UnknownPush(message)) ELSE pushed
           detailsIdx == IF scan THEN 2 ELSE 1
           afterDetails ==
               IF Truthy(email_input)
               THEN Append(afterScan,
                           ContactPush(email_input, OrElse(name_input, NameNotProvided),
                                       NotesFromChat \o message))
               ELSE afterScan
       IN  IF resp.content_none
           THEN /\ outcome' = "raised"
                /\ error' = "AttributeError"
                /\ UNCHANGED <<pushed, chat_history>>
           ELSE IF scan /\ pushFail = 1
           THEN /\ outcome' = "raised"
                /\ error' = "RequestException"
                /\ pushed' = afterScan
                /\ UNCHANGED chat_history
           ELSE IF Truthy(email_input) /\ pushFail = detailsIdx
           THEN /\ outcome' = "raised"
                /\ error' = "RequestException"
                /\ pushed' = afterDetails
                /\ UNCHANGED chat_history
           ELSE /\ outcome' = "returned"
                /\ error' = ""
                /\ pushed' = afterDetails
                /\ chat_history' = Append(chat_history, <<message, answer>>)
    /\ UNCHANGED <<kbVars, name_input, email_input, event, message>>

Next ==
    \/ Construct
    \/ \E name \in Names, email \in Emails : EditContact(name, email)
    \/ \E pushFail \in 0..1 : SubmitContact(pushFail)
    \/ \E msg \in Messages : Respond(msg)
    \/ ModelRaises
    \/ \E resp \in ToolResponses, pushFail \in PushFailures : ModelRequestsTools(resp, pushFail)
    \/ \E resp \in FinalResponses, pushFail \in PushFailures : ModelAnswers(resp, pushFail)

Spec == Init /\ [][Next]_vars

\* The loader alone, over every snapshot.
NextLoad == Construct

SpecLoad == InitLoad /\ [][NextLoad]_vars

(***************************************************************************)
(* Properties.                                                             *)
(***************************************************************************)
IsToolCallMessage(m) == m.role = "assistant" /\ "tool_calls" \in DOMAIN m

IsUnknownPush(p) == p.tool = "record_unknown_question"

\* The answer holds one of the "don't know" phrases, in any letter case.
HasUnknownPhrase(answer) ==
    \E phrase \in {<<"i"," ","d","o","n","'","t"," ","k","n","o","w">>,
                   <<"c","a","n","n","o","t"," ","a","n","s","w","e","r">>,
                   <<"n","o","t"," ","i","n"," ","m","y"," ","k","n","o","w","l","e","d","g","e"," ","b","a","s","e">>,
                   <<"n","o"," ","i","n","f","o","r","m","a","t","i","o","n">>} :
        Contains(Lower(answer), phrase)

\* The last model answer of the turn is a final one with text.
HasFinalAnswer(r) == r.finish_reason \notin {"", "tool_calls"} /\ ~r.content_none

\* C1: for some configured round limit n the turn makes at most n model
\* calls, whatever the model answers (n ranges over the depths explored).
ChatEndsWithinRoundLimit == \E n \in 1..MaxRounds : modelCalls <= n

\* C2: before every model call, each assistant tool-call message is followed
\* at once by one ToolResult per requested invocation, in request order, each
\* with its invocation's tool_call_id, and by no further ToolResult; and no
\* ToolResult stands outside such a block.
ToolResultsFollowToolCalls ==
    pc = "chat" =>
        /\ \A i \in 1..Len(messages) :
               IsToolCallMessage(messages[i]) =>
                   LET n == Len(messages[i].tool_calls)
                   IN  /\ i + n <= Len(messages)
                       /\ \A k \in 1..n :
                              /\ messages[i + k].role = "tool"
                              /\ messages[i + k].tool_call_id = messages[i].tool_calls[k].id
                       /\ (i + n < Len(messages) => messages[i + n + 1].role # "tool")
        /\ \A j \in 1..Len(messages) :
               messages[j].role = "tool" =>
                   \E i \in 1..(j - 1) :
                       /\ IsToolCallMessage(messages[i])
                       /\ j <= i + Len(messages[i].tool_calls)

\* C2 witness: a model call is about to be made after a round that
\* requested two invocations.
TwoResultsBeforeNextCall ==
    /\ pc = "chat"
    /\ \E i \in 1..Len(messages) :
           IsToolCallMessage(messages[i]) /\ Len(messages[i].tool_calls) = 2

\* C3: a turn whose final answer holds a "don't know" phrase triggers
\* exactly one push from record_unknown_question, tool rounds and scan
\* counted together.
OneUnknownNotificationPerTurn ==
    (event = "respond" /\ pc = "idle" /\ HasFinalAnswer(response)
     /\ HasUnknownPhrase(response.content))
        => Len(SelectSeq(pushed, IsUnknownPush)) = 1

\* A tool call whose arguments json.loads or the tool's parameters reject.
HasBadArguments(tool_call) ==
    \/ ~JsonLoads(tool_call.arguments).ok
    \/ /\ GlobalsGet(tool_call.name) # "None"
       /\ ~Binds(GlobalsGet(tool_call.name), JsonLoads(tool_call.arguments).value)

\* C4: a round with a malformed tool-argument payload is not aborted (push
\* failures apart): the loop goes on to the next model call with one
\* ToolResult per requested invocation appended.
MalformedArgumentsFailOneInvocation ==
    [][(/\ pc = "chat"
        /\ modelCalls' = modelCalls + 1
        /\ response'.finish_reason = "tool_calls"
        /\ error' \notin {"APIConnectionError", "RequestException"}
        /\ \E i \in 1..Len(response'.tool_calls) : HasBadArguments(response'.tool_calls[i]))
       => /\ pc' = "chat"
          /\ Len(messages') = Len(messages) + 1 + Len(response'.tool_calls)
          /\ \A k \in 1..Len(response'.tool_calls) :
                 /\ messages'[Len(messages) + 1 + k].role = "tool"
                 /\ messages'[Len(messages) + 1 + k].tool_call_id = response'.tool_calls[k].id]_vars

\* C5: no step into or inside a running turn changes the chat history, and
\* a model call that fails in transport ends the turn with the exception
\* and the history the turn started with.
TransportFailureKeepsHistory ==
    [][/\ (pc' = "chat" => chat_history' = chat_history)
       /\ (pc = "chat" /\ error' = "APIConnectionError")
              => (pc' = "idle" /\ outcome' = "raised" /\ chat_history' = chat_history)]_vars

\* C5 witness: the transport failed at a later round of a turn that ran on
\* a non-empty history.
TransportFailedAfterToolRound ==
    /\ outcome = "raised"
    /\ error = "APIConnectionError"
    /\ modelCalls >= 2
    /\ chat_history # <<>>

IsBlank(s) == \A i \in 1..Len(s) : s[i] \in {" ", "\t", "\n", "\r"}

\* C6: respond on an empty or whitespace-only message calls no model, pushes
\* nothing and leaves the chat history as it is.
BlankMessageDoesNothing ==
    [][(pc = "idle" /\ event' = "respond" /\ IsBlank(message'))
       => /\ pc' = "idle"
          /\ outcome' = "returned"
          /\ modelCalls' = 0
          /\ pushed' = <<>>
          /\ chat_history' = chat_history]_vars

\* C6 witness: a whitespace-only message was submitted with the email box
\* filled in, after an earlier turn.
BlankSubmittedWithEmail ==
    /\ event = "respond"
    /\ outcome = "returned"
    /\ message # <<>>
    /\ IsBlank(message)
    /\ email_input # <<>>
    /\ chat_history # <<>>

\* C7: submit_contact with a non-empty email makes exactly one push, from
\* record_user_details, whose text holds that email; with an empty email it
\* makes none; the chat history is not touched.
ContactFormNotifiesOnce ==
    [][(pc = "idle" /\ event' = "submit_contact")
       => /\ chat_history' = chat_history
          /\ IF email_input # <<>>
             THEN /\ Len(pushed') = 1
                  /\ pushed'[1].tool = "record_user_details"
                  /\ Contains(pushed'[1].text, email_input)
             ELSE pushed' = <<>>]_vars

\* C7 witness: the form was submitted with an email after a chat turn.
ContactSubmittedAfterChat ==
    /\ event = "submit_contact"
    /\ outcome = "returned"
    /\ Len(pushed) = 1
    /\ chat_history # <<>>

\* The prior turns as messages, in their order: each turn's user message,
\* then its answer when it has one.
RECURSIVE PriorTurns(_)
PriorTurns(history) ==
    IF history = <<>> THEN <<>>
    ELSE PriorTurns(SubSeq(history, 1, Len(history) - 1))
         \o <<[role |-> "user", content |-> history[Len(history)][1]]>>
         \o (IF history[Len(history)][2] = <<>> THEN <<>>
             ELSE <<[role |-> "assistant", content |-> history[Len(history)][2]]>>)

\* The sequence about to be sent: one system message holding the persona
\* name and the knowledge-base text, the prior turns, the newest user
\* message, then only tool-call messages and ToolResults.
MessagesWellFormed ==
    LET prior == PriorTurns(chat_history)
        n == Len(prior)
    IN  /\ Len(messages) >= n + 2
        /\ messages[1].role = "system"
        /\ Contains(messages[1].content, Name)
        /\ Contains(messages[1].content, knowledge_base_text)
        /\ \A i \in 2..Len(messages) : messages[i].role # "system"
        /\ SubSeq(messages, 2, n + 1) = prior
        /\ messages[n + 2] = [role |-> "user", content |-> message]
        /\ \A i \in (n + 3)..Len(messages) :
               IsToolCallMessage(messages[i]) \/ messages[i].role = "tool"

\* C8: every sequence passed to the model is well formed as above, and from
\* one round to the next the sequence only grows at its end.
MessageSequenceInvariant ==
    /\ [](pc = "chat" => MessagesWellFormed)
    /\ [][(pc = "chat" /\ pc' = "chat")
          => /\ Len(messages') >= Len(messages)
             /\ SubSeq(messages', 1, Len(messages)) = messages]_vars

\* C8 witness: a later round of a turn that runs on two prior turns, one of
\* them with an empty answer.
LaterRoundOnPriorTurns ==
    /\ pc = "chat"
    /\ Len(chat_history) = 2
    /\ \E i \in 1..2 : chat_history[i][2] = <<>>
    /\ modelCalls >= 1
    /\ Len(messages) > Len(PriorTurns(chat_history)) + 2

\* The page texts a PDF contributes: the non-empty texts of the pages before
\* the first page whose extraction raises.
PagesRead(doc) ==
    LET bad == {i \in 1..Len(doc.pages) : doc.pages[i].raises}
        last == IF bad = {} THEN Len(doc.pages)
                ELSE (CHOOSE i \in bad : \A j \in bad : i <= j) - 1
        read == SelectSeq(SubSeq(doc.pages, 1, last), LAMBDA pg : pg.text # <<>>)
    IN  IF doc.exists /\ doc.opens THEN [i \in 1..Len(read) |-> read[i].text] ELSE <<>>

\* The page texts of a PDF that is read to its end, and nothing otherwise.
PagesOfReadable(doc) ==
    IF \E i \in 1..Len(doc.pages) : doc.pages[i].raises THEN <<>> ELSE PagesRead(doc)

TextRead(doc) == IF doc.exists /\ doc.reads THEN <<doc.content>> ELSE <<>>

RECURSIVE JoinPieces(_)
JoinPieces(pieces) ==
    IF pieces = <<>> THEN <<>>
    ELSE <<"\n">> \o Head(pieces) \o JoinPieces(Tail(pieces))

\* C9 as stated: the knowledge base is the text of exactly the documents
\* read without failure, in configured order, each piece after a newline; a
\* document that fails contributes nothing.
LoadKeepsOnlyReadableDocuments ==
    pc # "unbuilt" =>
        knowledge_base_text =
            JoinPieces(PagesOfReadable(fs.pdf[1]) \o PagesOfReadable(fs.pdf[2])
                       \o TextRead(fs.text[1]))

\* C9 amended: loading always completes, and the knowledge base is, in
\* configured order and each piece after a newline, the non-empty page texts
\* of each PDF up to its first failing page and the content of the text file
\* if it was read; a missing document or one that fails on opening
\* contributes nothing.
LoadKeepsPagesBeforeFailure ==
    /\ pc = "unbuilt" => ENABLED Construct
    /\ pc # "unbuilt" =>
           knowledge_base_text =
               JoinPieces(PagesRead(fs.pdf[1]) \o PagesRead(fs.pdf[2]) \o TextRead(fs.text[1]))

\* C9 witness: the first PDF failed on its second page, the second PDF is
\* missing, and the text file was loaded after them.
LoadedAroundFailures ==
    /\ pc = "idle"
    /\ Len(fs.pdf[1].pages) = 2
    /\ ~fs.pdf[1].pages[1].raises
    /\ fs.pdf[1].pages[1].text # <<>>
    /\ fs.pdf[1].pages[2].raises
    /\ ~fs.pdf[2].exists
    /\ fs.text[1].reads
    /\ fs.text[1].content # <<>>
    /\ knowledge_base_text = <<"\n">> \o fs.pdf[1].pages[1].text \o <<"\n">> \o fs.text[1].content

\* C10: when the loop ends with an answer, the scan adds exactly one push
\* from record_unknown_question, with the user's message, if the answer
\* holds a "don't know" phrase and none otherwise, whatever the tool rounds
\* pushed before; and the answer recorded for the turn is the model's.
PostHocScanNotifiesOnce ==
    [][(pc = "chat" /\ HasFinalAnswer(response'))
       => LET added == SubSeq(pushed', Len(pushed) + 1, Len(pushed'))
          IN  /\ Len(pushed') >= Len(pushed)
              /\ SubSeq(pushed', 1, Len(pushed)) = pushed
              /\ SelectSeq(added, IsUnknownPush) =
                     IF HasUnknownPhrase(response'.content)
                     THEN <<UnknownPush(message)>> ELSE <<>>
              /\ outcome' = "returned"
                     => chat_history' = Append(chat_history, <<message, response'.content>>)]_vars

\* C10 witness: a turn returned a "don't know" answer after the model had
\* already invoked record_unknown_question as a tool call.
ScanAfterToolNotification ==
    /\ event = "respond"
    /\ outcome = "returned"
    /\ HasFinalAnswer(response)
    /\ HasUnknownPhrase(response.content)
    /\ Len(SelectSeq(pushed, IsUnknownPush)) = 2

=============================================================================
